---- MODULE Spec2Model ----
(***************************************************************************)
(* A model of the workflow engine: the task graph and its scheduling       *)
(* (engine.py: Task, DAG), the run-driving loop (engine.py:                *)
(* WorkflowEngine.run_dag), the request handlers that call it (api.py),    *)
(* the recurring-schedule registry (scheduler.py) and the trigger registry *)
(* with its listener fan-out (triggers.py).                                *)
(***************************************************************************)
EXTENDS Integers, Sequences, FiniteSets, TLC

\* ------------------------------------------------------------------ bounds
\* the largest number of tasks added to a DAG
NumTasks == 2
\* the longest depends_on list given to a Task
MaxDeps == 2
\* the largest max_parallel passed to run_dag
MaxParallel == 2
\* the number of run_dag invocations that create a run
MaxRuns == 2
\* the number of times the clock advances
MaxTicks == 2
\* the interval, in seconds, given to an "interval" schedule
IntervalInput == 2
\* the number of times execute() is called on one task from outside a run
MaxTries == 2

\* ------------------------------------------------------------------ values
\* None where a string is expected
None == "None"
\* None where another value v is expected, which is then written <<v>>
Nil == <<>>
Some(v) == <<v>>

\* the clock counts tenths of a second: time.sleep(0.1) is one of them
SleepTicks == 1
TicksPerSecond == 10
Seconds(n) == n * TicksPerSecond

\* A task id is the position at which add_task inserted it into DAG.tasks
\* (a dict keeps insertion order); one more id is never added to any DAG.
DepIds == 1..(NumTasks + 1)
DepLists == UNION {[1..k -> DepIds] : k \in 0..MaxDeps}

\* what a task's callable does when invoked
Funcs == {"ok", "raise"}
\* and a callable that raises when first invoked and returns from then on
TaskFuncs == Funcs \cup {"flaky"}

\* dag ids given to register_dag, and every dag id given to run_dag
RegisteredIds == {"sample_dag"}
DagIds == RegisteredIds \cup {"missing_dag"}

\* the thread of the program itself, and the request threads of the API
MainThread == "main"
RequestThreads == {"req_1", "req_2"}
Threads == {MainThread} \cup RequestThreads

SeqRange(s) == {s[i] : i \in 1..Len(s)}
Indices(s) == [i \in 1..Len(s) |-> i]
Min(a, b) == IF a < b THEN a ELSE b
Max(a, b) == IF a > b THEN a ELSE b

\* dict[key] = value on a dict modelled as a function
Put(f, key, value) == [x \in DOMAIN f \cup {key} |-> IF x = key THEN value ELSE f[x]]

\* ------------------------------------------------------------------ engine.py: Task
TaskStatus == {"PENDING", "RUNNING", "SUCCESS", "FAILED", "SKIPPED"}

\* Task.__init__
NewTask(func, depends_on) ==
    [func |-> func, depends_on |-> depends_on, status |-> "PENDING",
     result |-> None, error |-> None, started_at |-> Nil,
     completed_at |-> Nil, try_count |-> 0]

\* Task.execute up to the call of self.func
ExecuteBegin(task, t) ==
    [task EXCEPT !.status = "RUNNING", !.started_at = Some(t), !.try_count = @ + 1]

\* self.func(**self.params) returns, in a task whose try_count is counted
Returns(task) == task.func = "ok" \/ (task.func = "flaky" /\ task.try_count > 1)

\* Task.execute from the return (or the exception) of self.func on
ExecuteEnd(task, t) ==
    IF Returns(task)
    THEN [task EXCEPT !.result = "result", !.status = "SUCCESS",
                      !.completed_at = Some(t)]
    ELSE [task EXCEPT !.status = "FAILED", !.error = "error", !.completed_at = Some(t)]

\* ------------------------------------------------------------------ engine.py: DAG
\* DAG.__init__ followed by one add_task per task, in the order of the ids
NewDag(funcs, deps) ==
    [tasks |-> [i \in 1..Len(funcs) |-> NewTask(funcs[i], deps[i])],
     execution_order |-> <<>>]

\* the number of entries of a depends_on list that name a task of the DAG
InDegree(tasks, i) ==
    Cardinality({k \in 1..Len(tasks[i].depends_on) :
                    tasks[i].depends_on[k] \in 1..Len(tasks)})

RECURSIVE Kahn(_, _, _, _)
Kahn(tasks, queue, in_degree, order) ==
    IF queue = <<>> THEN order
    ELSE LET current == Head(queue)
             hit(i) == current \in SeqRange(tasks[i].depends_on)
             deg == [i \in 1..Len(tasks) |->
                        IF hit(i) THEN in_degree[i] - 1 ELSE in_degree[i]]
             zero(i) == hit(i) /\ deg[i] = 0
         IN  Kahn(tasks, Tail(queue) \o SelectSeq(Indices(tasks), zero), deg,
                  Append(order, current))

\* topological_sort that returns the tasks in the order of insertion
topological_sort_insertion_order(tasks) == Indices(tasks)

\* DAG.topological_sort
topological_sort(tasks) ==
    LET in_degree == [i \in 1..Len(tasks) |-> InDegree(tasks, i)]
        free(i) == in_degree[i] = 0
    IN  Kahn(tasks, SelectSeq(Indices(tasks), free), in_degree, <<>>)

\* get_ready_tasks without its test of the status
get_ready_tasks_any_status(tasks, completed) ==
    LET ready(i) == \A k \in 1..Len(tasks[i].depends_on) :
                        tasks[i].depends_on[k] \in SeqRange(completed)
    IN  SelectSeq(Indices(tasks), ready)

\* get_ready_tasks with any() in the place of all()
get_ready_tasks_any_dep(tasks, completed) ==
    LET ready(i) == /\ tasks[i].status = "PENDING"
                    /\ \E k \in 1..Len(tasks[i].depends_on) :
                          tasks[i].depends_on[k] \in SeqRange(completed)
    IN  SelectSeq(Indices(tasks), ready)

\* get_ready_tasks that takes a dependency that FAILED for one that is met
get_ready_tasks_failed_is_met(tasks, completed) ==
    LET met(d) == \/ d \in SeqRange(completed)
                  \/ d \in 1..Len(tasks) /\ tasks[d].status = "FAILED"
        ready(i) == /\ tasks[i].status = "PENDING"
                    /\ \A k \in 1..Len(tasks[i].depends_on) : met(tasks[i].depends_on[k])
    IN  SelectSeq(Indices(tasks), ready)

\* DAG.get_ready_tasks
get_ready_tasks(tasks, completed) ==
    LET ready(i) == /\ tasks[i].status = "PENDING"
                    /\ \A k \in 1..Len(tasks[i].depends_on) :
                          tasks[i].depends_on[k] \in SeqRange(completed)
    IN  SelectSeq(Indices(tasks), ready)

\* the slice s[:n + 1]
Slice_one_more(s, n) == SubSeq(s, 1, Min(n + 1, Len(s)))

\* the slice s[:n] of a list
Slice(s, n) ==
    IF n >= 0 THEN SubSeq(s, 1, Min(n, Len(s)))
    ELSE SubSeq(s, 1, Max(Len(s) + n, 0))

\* a run status that ignores the failed list
RunStatus_ignores_failed(failed) == "completed"

\* run_dag: run["status"] = "completed" if not failed else "failed"
RunStatus(failed) == IF failed = <<>> THEN "completed" ELSE "failed"

\* the number of tasks of a DAG that are RUNNING
Running(tasks) == Cardinality({i \in 1..Len(tasks) : tasks[i].status = "RUNNING"})

\* ------------------------------------------------------------------ state
VARIABLES
    dags,    \* WorkflowEngine.dags: dag id -> DAG
    robj,    \* the run dicts run_dag has created, in the order of creation
    runs,    \* WorkflowEngine.runs: run id -> (index in robj of) a run dict
    files,   \* the storage directory: run id -> the record written there
    th,      \* each thread's position in run_dag and run_dag's locals
    schedules,   \* Scheduler.schedules, in the order of the dict
    sched_file,  \* schedules.json, or Nil before the first save
    polled,      \* what the last call returned, when it was get_pending_runs
    triggers,    \* TriggerManager.triggers: trigger id -> Trigger
    listeners,   \* TriggerManager.listeners: trigger id -> (address of) a list
    lists,       \* the list objects of the listeners: address -> list
    fired,       \* what the last call of fire_trigger returned to its caller
    now,     \* datetime.now(), in tenths of a second
    ticks    \* the number of times the clock has advanced

evars == <<dags, robj, runs, files, th>>
svars == <<schedules, sched_file, polled>>
tvars == <<triggers, listeners, lists, fired>>
vars == <<evars, svars, tvars, now, ticks>>

\* time passes: the clock advances by d, MaxTicks times at most
Advance(d) ==
    IF ticks < MaxTicks
    THEN now' = now + d /\ ticks' = ticks + 1
    ELSE UNCHANGED <<now, ticks>>

\* hashlib.md5(f"{dag_id}{datetime.now()}").hexdigest()[:12]: equal for equal
\* inputs; the digests of different inputs are taken to differ
Digest(dag_id, t) == <<dag_id, t>>

NoOutcome == [kind |-> "none"]
Raised(exc) == [kind |-> "raised", exc |-> exc]
Returned(value) == [kind |-> "returned", value |-> value]

IdleThread ==
    [pc |-> "idle", dag_id |-> None, max_parallel |-> 0, run |-> 0,
     completed |-> <<>>, failed |-> <<>>, ready_tasks |-> <<>>, batch |-> <<>>,
     idx |-> 0, started |-> <<>>, peak |-> 0, trace |-> <<>>, asked |-> None,
     outcome |-> NoOutcome]

\* WorkflowEngine.__init__, Scheduler.__init__ on empty storage and
\* TriggerManager.__init__
Init ==
    /\ dags = <<>>
    /\ robj = <<>>
    /\ runs = <<>>
    /\ files = <<>>
    /\ th = [t \in Threads |-> IdleThread]
    /\ schedules = <<>>
    /\ sched_file = Nil
    /\ polled = Nil
    /\ triggers = <<>>
    /\ listeners = <<>>
    /\ lists = <<>>
    /\ fired = NoOutcome
    /\ now = 0
    /\ ticks = 0

\* WorkflowEngine.register_dag, on a DAG built by DAG() and add_task
register_dag(d, funcs, deps) ==
    /\ dags' = Put(dags, d, NewDag(funcs, deps))
    /\ UNCHANGED <<svars, tvars, robj, runs, files, th, now, ticks>>

\* WorkflowEngine.run_dag up to the driving loop
run_dag(t, d, mp) ==
    /\ th[t].pc = "idle"
    /\ IF d \notin DOMAIN dags
       THEN /\ th' = [th EXCEPT ![t] = [IdleThread EXCEPT
                          !.asked = d, !.outcome = Raised("ValueError")]]
            /\ UNCHANGED <<svars, tvars, dags, robj, runs, files, now, ticks>>
       ELSE /\ Len(robj) < MaxRuns
            /\ LET run_id == Digest(d, now)
                   run == [run_id |-> run_id, dag_id |-> d, status |-> "running",
                           started_at |-> Some(now), completed_at |-> Nil,
                           tasks_completed |-> <<>>, tasks_failed |-> <<>>]
               IN  /\ dags' = [dags EXCEPT ![d].execution_order =
                                              topological_sort(dags[d].tasks)]
                   /\ robj' = Append(robj, run)
                   /\ runs' = Put(runs, run_id, Len(robj) + 1)
                   /\ th' = [th EXCEPT ![t] = [IdleThread EXCEPT
                                 !.pc = "while", !.dag_id = d, !.max_parallel = mp,
                                 !.run = Len(robj) + 1, !.asked = d]]
            /\ UNCHANGED <<svars, tvars, files, now, ticks>>

\* run_dag: the test of the while loop; then either the poll of the ready
\* tasks, or the end of the run (status, _save_run, return run_id)
while_test(t) ==
    /\ th[t].pc = "while"
    /\ LET me == th[t]
           tasks == dags[me.dag_id].tasks
       IN  IF Len(me.completed) + Len(me.failed) < Len(tasks)
           THEN /\ th' = [th EXCEPT ![t].pc = "for",
                                    ![t].ready_tasks = get_ready_tasks(tasks, me.completed),
                                    ![t].batch = Slice(get_ready_tasks(tasks, me.completed),
                                                       me.max_parallel),
                                    ![t].idx = 1,
                                    ![t].started = <<>>,
                                    ![t].peak = Running(tasks)]
                /\ UNCHANGED <<svars, tvars, dags, robj, runs, files, now, ticks>>
           ELSE LET run == [robj[me.run] EXCEPT
                               !.status = RunStatus(me.failed),
                               !.completed_at = Some(now)]
                IN  /\ robj' = [robj EXCEPT ![me.run] = run]
                    /\ files' = Put(files, run.run_id, run)
                    /\ th' = [th EXCEPT ![t].pc = "idle",
                                        ![t].outcome = Returned(run.run_id)]
                    /\ UNCHANGED <<svars, tvars, dags, runs, now, ticks>>

\* run_dag: the for loop takes the next task of ready_tasks[:max_parallel]
\* and calls task.execute(), or ends
for_next(t) ==
    /\ th[t].pc = "for"
    /\ LET me == th[t] IN
       IF me.idx <= Len(me.batch)
       THEN LET i == me.batch[me.idx] IN
            /\ dags' = [dags EXCEPT ![me.dag_id].tasks[i] = ExecuteBegin(@, now)]
            /\ th' = [th EXCEPT ![t].pc = "exec", ![t].started = Append(@, i),
                                ![t].peak = Max(@, Running(dags'[me.dag_id].tasks))]
            /\ UNCHANGED <<svars, tvars, robj, runs, files, now, ticks>>
       ELSE /\ th' = [th EXCEPT ![t].pc = "sleep"]
            /\ UNCHANGED <<svars, tvars, dags, robj, runs, files, now, ticks>>

\* run_dag: task.execute() returns or raises; the try statement records it
execute_end(t) ==
    /\ th[t].pc = "exec"
    /\ LET me == th[t]
           i == me.batch[me.idx]
           task == ExecuteEnd(dags[me.dag_id].tasks[i], now)
           ok == Returns(dags[me.dag_id].tasks[i])
       IN  /\ dags' = [dags EXCEPT ![me.dag_id].tasks[i] = task]
           /\ IF ok
              THEN /\ th' = [th EXCEPT ![t].pc = "for", ![t].idx = @ + 1,
                                       ![t].completed = Append(@, i),
                                       ![t].trace = Append(@, <<i, "returned">>)]
                   /\ robj' = [robj EXCEPT ![me.run].tasks_completed = Append(@, i)]
              ELSE /\ th' = [th EXCEPT ![t].pc = "for", ![t].idx = @ + 1,
                                       ![t].failed = Append(@, i),
                                       ![t].trace = Append(@, <<i, "raised">>)]
                   /\ robj' = [robj EXCEPT ![me.run].tasks_failed = Append(@, i)]
           /\ UNCHANGED <<svars, tvars, runs, files, now, ticks>>

\* run_dag: time.sleep(0.1)
sleep(t) ==
    /\ th[t].pc = "sleep"
    /\ Advance(SleepTicks)
    /\ th' = [th EXCEPT ![t].pc = "while"]
    /\ UNCHANGED <<svars, tvars, dags, robj, runs, files>>

\* get_run that reads WorkflowEngine.runs in the place of the storage
get_run_from_memory(run_id) ==
    IF run_id \in DOMAIN runs THEN Some(robj[runs[run_id]]) ELSE Nil

\* WorkflowEngine.get_run: the record json.load reads from the run's file, or
\* None when there is no file
get_run(run_id) == IF run_id \in DOMAIN files THEN Some(files[run_id]) ELSE Nil

\* the main thread builds a DAG and registers it; an id is registered once
Register ==
    /\ th[MainThread].pc = "idle"
    /\ \E d \in RegisteredIds \ DOMAIN dags, n \in 0..NumTasks :
          \E funcs \in [1..n -> Funcs], deps \in [1..n -> DepLists] :
              register_dag(d, funcs, deps)

\* the program calls run_dag from one thread
Next ==
    \/ Register
    \/ \E d \in DagIds, mp \in 0..MaxParallel : run_dag(MainThread, d, mp)
    \/ while_test(MainThread)
    \/ for_next(MainThread)
    \/ execute_end(MainThread)
    \/ sleep(MainThread)

Spec == Init /\ [][Next]_vars

\* a thread inside run_dag keeps running
Driver(t) == while_test(t) \/ for_next(t) \/ execute_end(t) \/ sleep(t)

FairSpec == Spec /\ WF_vars(Driver(MainThread))

\* ------------------------------------------------------------------ api.py
\* run_dag's default max_parallel
DefaultMaxParallel == 4

\* POST /dags: every task gets func=lambda **kwargs: kwargs
create_dag(d, deps) ==
    /\ d \notin DOMAIN dags
    /\ register_dag(d, [i \in 1..Len(deps) |-> "ok"], deps)

\* POST /dags/<dag_id>/run, up to the driving loop of engine.run_dag
api_run_dag(t, d) == run_dag(t, d, DefaultMaxParallel)

\* the response of POST /dags/<dag_id>/run, from what engine.run_dag did
ApiRunResponse(outcome) ==
    IF outcome.kind = "raised" /\ outcome.exc = "ValueError"
    THEN [code |-> 404, error |-> "not found"]
    ELSE [code |-> 200, run_id |-> outcome.value, status |-> "started"]

\* two requests are served at the same time, each by its own thread
NextPar ==
    \/ \E d \in RegisteredIds, n \in 0..NumTasks :
          \E deps \in [1..n -> DepLists] : create_dag(d, deps)
    \/ \E t \in RequestThreads, d \in DagIds : api_run_dag(t, d)
    \/ \E t \in RequestThreads : while_test(t)
    \/ \E t \in RequestThreads : for_next(t)
    \/ \E t \in RequestThreads : execute_end(t)
    \/ \E t \in RequestThreads : sleep(t)

SpecPar == Init /\ [][NextPar]_vars

\* ------------------------------------------------------------------ scheduler.py
\* timedelta(hours=1) and timedelta(days=1), in seconds
HourSeconds == 3600
DaySeconds == 86400
\* the interval CronParser.parse gives its Schedule
CronInterval == 60

\* the dag ids schedules are made for
SchedIds == {"dag_1", "dag_2"}

\* the (schedule_type, interval) pairs given to Schedule()
ScheduleInputs ==
    <<[schedule_type |-> "daily", interval |-> Nil],
      [schedule_type |-> "hourly", interval |-> Nil],
      [schedule_type |-> "interval", interval |-> Nil],
      [schedule_type |-> "interval", interval |-> Some(IntervalInput)],
      [schedule_type |-> "custom", interval |-> Some(CronInterval)],
      [schedule_type |-> "weekly", interval |-> Nil]>>

\* the lengths of time that pass between two calls
TickSizes == {Seconds(1), Seconds(HourSeconds), Seconds(DaySeconds)}

\* datetime.isoformat(): the instant as a string
IsoFormat(t) == <<"iso", t>>

\* Schedule.__init__
NewSchedule(dag_id, schedule_type, interval) ==
    [dag_id |-> dag_id, schedule_type |-> schedule_type, interval |-> interval,
     enabled |-> TRUE, last_run |-> Nil, next_run |-> Nil]

\* calculate_next_run with a day in the place of the hour
calculate_next_run_hour_is_day(s, t) ==
    IF s.schedule_type \in {"daily", "hourly"}
    THEN [s EXCEPT !.next_run = Some(t + Seconds(DaySeconds))]
    ELSE IF s.schedule_type = "interval" /\ s.interval # Nil /\ s.interval # Some(0)
    THEN [s EXCEPT !.next_run = Some(t + Seconds(s.interval[1]))]
    ELSE s

\* Schedule.calculate_next_run at the instant t
calculate_next_run(s, t) ==
    IF s.schedule_type = "daily"
    THEN [s EXCEPT !.next_run = Some(t + Seconds(DaySeconds))]
    ELSE IF s.schedule_type = "hourly"
    THEN [s EXCEPT !.next_run = Some(t + Seconds(HourSeconds))]
    ELSE IF s.schedule_type = "interval" /\ s.interval # Nil /\ s.interval # Some(0)
    THEN [s EXCEPT !.next_run = Some(t + Seconds(s.interval[1]))]
    ELSE s

\* should_run without its test of the enabled flag
should_run_ignores_enabled(s, t) ==
    IF s.next_run = Nil THEN TRUE ELSE t >= s.next_run[1]

\* Schedule.should_run at the instant t
should_run(s, t) ==
    IF ~s.enabled THEN FALSE
    ELSE IF s.next_run = Nil THEN TRUE
    ELSE t >= s.next_run[1]

\* Schedule.to_dict
to_dict(s) ==
    [dag_id |-> s.dag_id, schedule_type |-> s.schedule_type,
     interval |-> s.interval, enabled |-> s.enabled, last_run |-> s.last_run,
     next_run |-> IF s.next_run # Nil THEN IsoFormat(s.next_run[1]) ELSE Nil]

\* a dict in the order of insertion, as the sequence of its values
Keys(dict) == [i \in 1..Len(dict) |-> dict[i].dag_id]
Has(dict, key) == \E i \in 1..Len(dict) : dict[i].dag_id = key
Get(dict, key) == dict[CHOOSE i \in 1..Len(dict) : dict[i].dag_id = key]
Set(dict, value) ==
    IF Has(dict, value.dag_id)
    THEN [i \in 1..Len(dict) |->
             IF dict[i].dag_id = value.dag_id THEN value ELSE dict[i]]
    ELSE Append(dict, value)
Del(dict, key) == LET keep(v) == v.dag_id # key IN SelectSeq(dict, keep)

\* Scheduler._save_schedules: what json.dump writes
Snapshot(dict) == Some([i \in 1..Len(dict) |-> to_dict(dict[i])])

\* Scheduler._load_schedules: the registry made of what json.load reads
Loaded(file) ==
    IF file = Nil THEN <<>>
    ELSE [i \in 1..Len(file[1]) |->
             [NewSchedule(file[1][i].dag_id, file[1][i].schedule_type,
                          file[1][i].interval)
                 EXCEPT !.enabled = file[1][i].enabled]]

\* Scheduler.__init__ over the storage a Scheduler has written to
load_schedules ==
    /\ schedules' = Loaded(sched_file)
    /\ polled' = Nil
    /\ UNCHANGED <<evars, tvars, sched_file, now, ticks>>

\* the registry after add_schedule, called with the Schedule s at the instant t
AfterAdd(dict, s, t) == Set(dict, calculate_next_run(s, t))

\* the registry after mark_run, called for a dag id it holds at the instant t
AfterMark(dict, d, t) ==
    Set(dict, calculate_next_run([Get(dict, d) EXCEPT !.last_run = IsoFormat(t)], t))

\* Scheduler.add_schedule
add_schedule(d, schedule_type, interval) ==
    /\ schedules' = AfterAdd(schedules, NewSchedule(d, schedule_type, interval), now)
    /\ sched_file' = Snapshot(schedules')
    /\ polled' = Nil
    /\ UNCHANGED <<evars, tvars, now, ticks>>

\* Scheduler.remove_schedule
remove_schedule(d) ==
    /\ IF Has(schedules, d)
       THEN /\ schedules' = Del(schedules, d)
            /\ sched_file' = Snapshot(schedules')
       ELSE UNCHANGED <<schedules, sched_file>>
    /\ polled' = Nil
    /\ UNCHANGED <<evars, tvars, now, ticks>>

\* Scheduler.enable_schedule
enable_schedule(d) ==
    /\ IF Has(schedules, d)
       THEN /\ schedules' = Set(schedules, [Get(schedules, d) EXCEPT !.enabled = TRUE])
            /\ sched_file' = Snapshot(schedules')
       ELSE UNCHANGED <<schedules, sched_file>>
    /\ polled' = Nil
    /\ UNCHANGED <<evars, tvars, now, ticks>>

\* Scheduler.disable_schedule
disable_schedule(d) ==
    /\ IF Has(schedules, d)
       THEN /\ schedules' = Set(schedules, [Get(schedules, d) EXCEPT !.enabled = FALSE])
            /\ sched_file' = Snapshot(schedules')
       ELSE UNCHANGED <<schedules, sched_file>>
    /\ polled' = Nil
    /\ UNCHANGED <<evars, tvars, now, ticks>>

\* the list Scheduler.get_pending_runs builds at the instant t
PendingRuns(dict, t) ==
    LET due(s) == should_run(s, t) IN Keys(SelectSeq(dict, due))

\* get_pending_runs that disables what it reports
get_pending_runs_consumes ==
    /\ polled' = Some(PendingRuns(schedules, now))
    /\ schedules' = [i \in 1..Len(schedules) |->
                        IF should_run(schedules[i], now)
                        THEN [schedules[i] EXCEPT !.enabled = FALSE]
                        ELSE schedules[i]]
    /\ UNCHANGED <<evars, tvars, sched_file, now, ticks>>

\* Scheduler.get_pending_runs
get_pending_runs ==
    /\ polled' = Some(PendingRuns(schedules, now))
    /\ UNCHANGED <<evars, tvars, schedules, sched_file, now, ticks>>

\* Scheduler.mark_run
mark_run(d) ==
    /\ IF Has(schedules, d)
       THEN /\ schedules' = AfterMark(schedules, d, now)
            /\ sched_file' = Snapshot(schedules')
       ELSE UNCHANGED <<schedules, sched_file>>
    /\ polled' = Nil
    /\ UNCHANGED <<evars, tvars, now, ticks>>

\* time passes between two calls
Tick(d) ==
    /\ ticks < MaxTicks
    /\ Advance(d)
    /\ polled' = Nil
    /\ UNCHANGED <<evars, tvars, schedules, sched_file>>

NextSched ==
    \/ \E d \in SchedIds, k \in 1..Len(ScheduleInputs) :
          add_schedule(d, ScheduleInputs[k].schedule_type, ScheduleInputs[k].interval)
    \/ \E d \in SchedIds : remove_schedule(d)
    \/ \E d \in SchedIds : enable_schedule(d)
    \/ \E d \in SchedIds : disable_schedule(d)
    \/ \E d \in SchedIds : mark_run(d)
    \/ get_pending_runs
    \/ load_schedules
    \/ \E d \in TickSizes : Tick(d)

SpecSched == Init /\ [][NextSched]_vars

\* ------------------------------------------------------------------ Task.execute on its own
\* task.execute(), called on a task of a registered DAG from outside a run
execute(d, i) ==
    /\ d \in DOMAIN dags
    /\ i \in 1..Len(dags[d].tasks)
    /\ dags[d].tasks[i].try_count < MaxTries
    /\ dags' = [dags EXCEPT ![d].tasks[i] = ExecuteEnd(ExecuteBegin(@, now), now)]
    /\ UNCHANGED <<svars, tvars, robj, runs, files, th, now, ticks>>

\* a DAG of tasks without dependencies is built and registered
RegisterTasks ==
    \E d \in RegisteredIds \ DOMAIN dags, n \in 1..NumTasks :
        \E funcs \in [1..n -> TaskFuncs] :
            register_dag(d, funcs, [i \in 1..n |-> <<>>])

NextTask ==
    \/ RegisterTasks
    \/ \E d \in RegisteredIds, i \in 1..NumTasks : execute(d, i)
    \/ Tick(Seconds(1))

SpecTask == Init /\ [][NextTask]_vars

\* ------------------------------------------------------------------ triggers.py
\* the trigger id given to register_trigger, every trigger id given to the
\* other calls, and the dag ids that listen
RegisteredTriggers == {"manual_1"}
TriggerIds == RegisteredTriggers \cup {"missing_1"}
ListenerIds == {"dag_1", "dag_2"}
\* the TriggerType value of the Triggers that are registered
TriggerTypes == {"manual"}
\* the payload arguments of fire_trigger
Payloads == {None, "user_admin"}

\* Trigger.__init__ at the instant t
NewTrigger(trigger_id, trigger_type, t) ==
    [trigger_id |-> trigger_id, trigger_type |-> trigger_type,
     created_at |-> IsoFormat(t), last_triggered |-> Nil]

\* a list object nothing refers to is gone; a new one gets the first address
\* that is free
Alloc(heap) == CHOOSE a \in 1..(Cardinality(DOMAIN heap) + 1) :
                  /\ a \notin DOMAIN heap
                  /\ \A b \in 1..(a - 1) : b \in DOMAIN heap
Held(outcome) ==
    IF outcome.kind = "returned" /\ outcome.value # Nil
    THEN {outcome.value[1].triggered_dags} ELSE {}
Collect(heap, refs, outcome) ==
    [a \in DOMAIN heap \cap ({refs[tr] : tr \in DOMAIN refs} \cup Held(outcome))
        |-> heap[a]]

\* TriggerManager.register_trigger, on a Trigger made at this instant
register_trigger(tr, trigger_type) ==
    /\ triggers' = Put(triggers, tr, NewTrigger(tr, trigger_type, now))
    /\ UNCHANGED <<evars, svars, listeners, lists, fired, now, ticks>>

\* add_listener without its test of membership
add_listener_always_appends(tr, d) ==
    /\ LET a == IF tr \in DOMAIN listeners THEN listeners[tr] ELSE Alloc(lists)
           old == IF tr \in DOMAIN listeners THEN lists[a] ELSE <<>>
       IN  /\ listeners' = Put(listeners, tr, a)
           /\ lists' = Put(lists, a, Append(old, d))
    /\ UNCHANGED <<evars, svars, triggers, fired, now, ticks>>

\* TriggerManager.add_listener: the list of the trigger id, made if there is
\* none, gets dag_id appended in place
add_listener(tr, d) ==
    /\ LET a == IF tr \in DOMAIN listeners THEN listeners[tr] ELSE Alloc(lists)
           old == IF tr \in DOMAIN listeners THEN lists[a] ELSE <<>>
       IN  /\ listeners' = Put(listeners, tr, a)
           /\ lists' = Put(lists, a, IF d \in SeqRange(old) THEN old ELSE Append(old, d))
    /\ UNCHANGED <<evars, svars, triggers, fired, now, ticks>>

\* TriggerManager.remove_listener: the trigger id gets a new list, made by
\* the comprehension
remove_listener(tr, d) ==
    /\ IF tr \in DOMAIN listeners
       THEN LET a == Alloc(lists)
                keep(x) == x # d
            IN  /\ listeners' = [listeners EXCEPT ![tr] = a]
                /\ lists' = Collect(Put(lists, a, SelectSeq(lists[listeners[tr]], keep)),
                                    listeners', fired)
       ELSE UNCHANGED <<listeners, lists>>
    /\ UNCHANGED <<evars, svars, triggers, fired, now, ticks>>

\* Trigger.fire: the dict it returns
Fire(trigger, payload, t) ==
    [trigger_id |-> trigger.trigger_id, trigger_type |-> trigger.trigger_type,
     fired_at |-> IsoFormat(t), payload |-> IF payload = None THEN "{}" ELSE payload]

\* what fire_trigger returns: the dict of Trigger.fire with the key
\* triggered_dags added, which holds (the address of) a list; at_return keeps
\* what that list held when fire_trigger returned
FireResult(trigger, payload, t, a, heap) ==
    Returned(Some([trigger_id |-> Fire(trigger, payload, t).trigger_id,
                   trigger_type |-> Fire(trigger, payload, t).trigger_type,
                   fired_at |-> Fire(trigger, payload, t).fired_at,
                   payload |-> Fire(trigger, payload, t).payload,
                   triggered_dags |-> a,
                   at_return |-> heap[a]]))

\* fire_trigger that leaves last_triggered as it was
fire_trigger_no_stamp(tr, payload) ==
    /\ IF tr \notin DOMAIN triggers
       THEN /\ fired' = Returned(Nil)
            /\ lists' = Collect(lists, listeners, fired')
            /\ UNCHANGED triggers
       ELSE LET a == IF tr \in DOMAIN listeners THEN listeners[tr] ELSE Alloc(lists)
                heap == IF tr \in DOMAIN listeners THEN lists ELSE Put(lists, a, <<>>)
            IN  /\ UNCHANGED triggers
                /\ fired' = FireResult(triggers[tr], payload, now, a, heap)
                /\ lists' = Collect(heap, listeners, fired')
    /\ UNCHANGED <<evars, svars, listeners, now, ticks>>

\* TriggerManager.fire_trigger; its caller keeps the result until the next call
fire_trigger(tr, payload) ==
    /\ IF tr \notin DOMAIN triggers
       THEN /\ fired' = Returned(Nil)
            /\ lists' = Collect(lists, listeners, fired')
            /\ UNCHANGED triggers
       ELSE LET a == IF tr \in DOMAIN listeners THEN listeners[tr] ELSE Alloc(lists)
                heap == IF tr \in DOMAIN listeners THEN lists ELSE Put(lists, a, <<>>)
            IN  /\ triggers' = [triggers EXCEPT ![tr].last_triggered = IsoFormat(now)]
                /\ fired' = FireResult(triggers[tr], payload, now, a, heap)
                /\ lists' = Collect(heap, listeners, fired')
    /\ UNCHANGED <<evars, svars, listeners, now, ticks>>

NextTrig ==
    \/ \E tr \in RegisteredTriggers, ty \in TriggerTypes : register_trigger(tr, ty)
    \/ \E tr \in TriggerIds, d \in ListenerIds : add_listener(tr, d)
    \/ \E tr \in TriggerIds, d \in ListenerIds : remove_listener(tr, d)
    \/ \E tr \in TriggerIds, payload \in Payloads : fire_trigger(tr, payload)
    \/ Tick(Seconds(1))

SpecTrig == Init /\ [][NextTrig]_vars

\* ------------------------------------------------------------------ graphs
\* the ids a task lists as its dependencies
Deps(tasks, i) == SeqRange(tasks[i].depends_on)

RECURSIVE Closure(_, _)
Closure(tasks, S) ==
    LET T == S \cup UNION {Deps(tasks, i) : i \in S \cap (1..Len(tasks))}
    IN  IF T = S THEN S ELSE Closure(tasks, T)

\* the ids a task depends on, directly or transitively
TransDeps(tasks, i) == Closure(tasks, Deps(tasks, i))

Acyclic(tasks) == \A i \in 1..Len(tasks) : i \notin TransDeps(tasks, i)
NoDangling(tasks) == \A i \in 1..Len(tasks) : Deps(tasks, i) \subseteq 1..Len(tasks)

\* order holds every task once, each after all of its dependencies
IsTopological(tasks, order) ==
    /\ Len(order) = Len(tasks)
    /\ SeqRange(order) = 1..Len(tasks)
    /\ \A a, b \in 1..Len(order) : order[b] \in Deps(tasks, order[a]) => b < a

\* ------------------------------------------------------------------ C1
\* get_ready_tasks, on tasks with the statuses st and the completed list c,
\* returns only PENDING tasks whose dependencies are all in c
ReadyIsSound(tasks) ==
    \A st \in [1..Len(tasks) -> TaskStatus], c \in DepLists :
        LET ts == [i \in 1..Len(tasks) |-> [tasks[i] EXCEPT !.status = st[i]]]
            r == get_ready_tasks(ts, c)
        IN  \A k \in 1..Len(r) :
                /\ st[r[k]] = "PENDING"
                /\ Deps(tasks, r[k]) \subseteq SeqRange(c)

\* the step at which the driver of thread t starts a task
Dispatches(t) == th[t].pc = "for" /\ th'[t].pc = "exec"

C1_Step ==
    /\ \A t \in Threads :
          Dispatches(t) =>
              LET me == th[t]
                  task == dags[me.dag_id].tasks[me.batch[me.idx]]
              IN  /\ task.status = "PENDING"
                  /\ Deps(dags[me.dag_id].tasks, me.batch[me.idx])
                         \subseteq SeqRange(robj[me.run].tasks_completed)
    /\ \A d \in DOMAIN dags' :
          d \notin DOMAIN dags => ReadyIsSound(dags'[d].tasks)

\* C1: the driver starts a task only when the task is PENDING and all its
\* dependencies are in the run's completed list; and whatever the statuses and
\* the completed list, get_ready_tasks returns no task with a dependency
\* outside the list and no task that is RUNNING, SUCCESS, FAILED or SKIPPED.
C1_DispatchOnlyReady == [][C1_Step]_vars

\* a task with dependencies has been started
C1_Witness ==
    /\ th[MainThread].pc = "exec"
    /\ LET me == th[MainThread]
       IN  Len(dags[me.dag_id].tasks[me.batch[me.idx]].depends_on) > 0

\* ------------------------------------------------------------------ C2
\* run k has just started on a DAG that is fresh, acyclic, without dangling
\* dependencies, whose callables all return, with max_parallel >= 1
FreshGoodRun(k) ==
    /\ th[MainThread].pc = "while"
    /\ th[MainThread].run = k
    /\ th[MainThread].trace = <<>>
    /\ th[MainThread].max_parallel >= 1
    /\ LET tasks == dags[th[MainThread].dag_id].tasks
       IN  /\ \A i \in 1..Len(tasks) :
                 tasks[i].status = "PENDING" /\ tasks[i].func = "ok"
           /\ Acyclic(tasks)
           /\ NoDangling(tasks)

\* run k has ended "completed", its record is saved, and its completed list
\* holds every task once, each after its dependencies
CompletedInOrder(k) ==
    /\ k <= Len(robj)
    /\ robj[k].status = "completed"
    /\ robj[k].tasks_failed = <<>>
    /\ robj[k].run_id \in DOMAIN files
    /\ files[robj[k].run_id] = robj[k]
    /\ IsTopological(dags[robj[k].dag_id].tasks, robj[k].tasks_completed)

\* C2: a run on a fresh acyclic DAG whose callables all succeed ends with
\* status "completed" and a completed list in dependency order.
C2_FreshRunCompletes == \A k \in 1..MaxRuns : FreshGoodRun(k) ~> CompletedInOrder(k)

\* a run of a chain of NumTasks tasks has completed
C2_Witness ==
    \E k \in 1..Len(robj) :
        /\ CompletedInOrder(k)
        /\ Len(robj[k].tasks_completed) = NumTasks
        /\ \A i \in 2..NumTasks :
              dags[robj[k].dag_id].tasks[i].depends_on = <<i - 1>>

\* ------------------------------------------------------------------ C3
\* the tasks of a trace whose execution ended the given way, in order
Ended(trace, how) ==
    LET is(e) == e[2] = how
        picked == SelectSeq(trace, is)
    IN  [k \in 1..Len(picked) |-> picked[k][1]]

\* C3: a returned run is "failed" iff one of its executions raised, and
\* "completed" otherwise; every raise is recorded in the failed list, never
\* leaves run_dag, and the rest of the iteration's tasks are still executed.
C3_FailureIsRecorded ==
    \A t \in Threads :
        LET me == th[t] IN
        /\ me.run > 0 =>
              /\ robj[me.run].tasks_failed = Ended(me.trace, "raised")
              /\ robj[me.run].tasks_completed = Ended(me.trace, "returned")
        /\ (me.run > 0 /\ me.pc = "idle") =>
              /\ me.outcome.kind = "returned"
              /\ me.outcome.value = robj[me.run].run_id
              /\ robj[me.run].status = "failed" <=> Ended(me.trace, "raised") # <<>>
              /\ robj[me.run].status = "completed" <=> Ended(me.trace, "raised") = <<>>
              /\ files[robj[me.run].run_id] = robj[me.run]
        /\ me.run > 0 => me.outcome.kind # "raised"
        /\ me.pc = "sleep" => me.started = me.batch

\* a run has returned "failed" after an iteration in which the first task
\* raised and the second was still executed
C3_Witness ==
    LET me == th[MainThread] IN
    /\ me.pc = "idle"
    /\ me.run > 0
    /\ robj[me.run].status = "failed"
    /\ me.started = <<1, 2>>
    /\ me.trace = << <<1, "raised">>, <<2, "returned">> >>

\* ------------------------------------------------------------------ C4
\* C4: on an acyclic graph without dangling ids, whatever the dependency
\* lists, the order topological_sort computed holds every task once, each
\* after all of its dependencies.
C4_TopologicalOrder ==
    \A k \in 1..Len(robj) :
        LET dag == dags[robj[k].dag_id] IN
        (Acyclic(dag.tasks) /\ NoDangling(dag.tasks))
            => IsTopological(dag.tasks, dag.execution_order)

C6_NoTwoAttempts ==
    \A t, u \in Threads :
        (t # u /\ th[t].pc = "exec" /\ th[u].pc = "exec"
              /\ th[t].dag_id = th[u].dag_id)
            => th[t].batch[th[t].idx] # th[u].batch[th[u].idx]

\* ------------------------------------------------------------------ C7
\* C7: an iteration with max_parallel >= 2 and two ready tasks has the two
\* RUNNING at the same time.
C7_RunsInParallel ==
    LET me == th[MainThread] IN
    (me.pc = "sleep" /\ me.max_parallel >= 2 /\ Len(me.ready_tasks) >= 2)
        => me.peak >= 2

\* ------------------------------------------------------------------ C8
\* C8: run_dag on an unregistered dag id hands back an absence value, raises
\* nothing and creates no run.
C8_NotFoundIsAValue ==
    \A t \in Threads :
        (th[t].asked # None /\ th[t].run = 0)
            => th[t].outcome.kind = "returned" /\ th[t].outcome.value = Nil

\* ------------------------------------------------------------------ C9
\* the dag ids whose schedule is enabled and is unscheduled or due at t
DueIds(dict, t) ==
    {d \in SchedIds :
        \E i \in 1..Len(dict) :
            /\ dict[i].dag_id = d
            /\ dict[i].enabled
            /\ dict[i].next_run = Nil \/ t >= dict[i].next_run[1]}

\* C9: get_pending_runs returns exactly the dag ids whose schedule is
\* enabled and has next_run unset or reached; never a disabled one.
C9_PendingIsDue ==
    polled # Nil =>
        /\ SeqRange(polled[1]) = DueIds(schedules, now)
        /\ \A a, b \in 1..Len(polled[1]) : a # b => polled[1][a] # polled[1][b]
        /\ \A i \in 1..Len(schedules) :
              ~schedules[i].enabled => schedules[i].dag_id \notin SeqRange(polled[1])

\* a poll has reported a schedule whose next_run was reached and has left out
\* a disabled one that was never scheduled
C9_Witness ==
    /\ polled # Nil
    /\ Len(polled[1]) = 1
    /\ \E i, j \in 1..Len(schedules) :
          /\ schedules[i].dag_id = polled[1][1]
          /\ schedules[i].next_run # Nil
          /\ ~schedules[j].enabled
          /\ schedules[j].next_run = Nil

\* ------------------------------------------------------------------ C10
\* a poll at the instant t would report d
Reported(dict, t, d) == Has(dict, d) /\ should_run(Get(dict, d), t)

\* a step that returns from get_pending_runs changes no schedule, neither in
\* the registry nor in the file
PureRead == polled' # Nil => schedules' = schedules /\ sched_file' = sched_file

Replaces(d) ==
    \E k \in 1..Len(ScheduleInputs) :
        add_schedule(d, ScheduleInputs[k].schedule_type, ScheduleInputs[k].interval)

\* C10 as claimed: get_pending_runs is a pure read, and a dag that is pending
\* stays pending until mark_run, disable_schedule or remove_schedule is
\* called for it.
C10_PendingUntilMarked ==
    [][/\ PureRead
       /\ \A d \in SchedIds :
             (/\ Reported(schedules, now, d)
              /\ ~mark_run(d) /\ ~disable_schedule(d) /\ ~remove_schedule(d))
                 => Reported(schedules', now', d)]_vars

\* C10 as amended: get_pending_runs is a pure read, and a dag that is
\* pending stays pending until mark_run, disable_schedule or remove_schedule
\* is called for it, or add_schedule replaces its schedule.
C10_PendingUntilMarkedOrReplaced ==
    [][/\ PureRead
       /\ \A d \in SchedIds :
             (/\ Reported(schedules, now, d)
              /\ ~mark_run(d) /\ ~disable_schedule(d) /\ ~remove_schedule(d)
              /\ ~Replaces(d))
                 => Reported(schedules', now', d)]_vars

\* a poll has reported a schedule that came due and was never marked
C10_Witness ==
    /\ polled # Nil
    /\ \E i \in 1..Len(schedules) :
          /\ schedules[i].dag_id \in SeqRange(polled[1])
          /\ schedules[i].next_run # Nil
          /\ schedules[i].last_run = Nil

\* ------------------------------------------------------------------ C11
\* the period of a schedule's kind in seconds, or Nil when it has none
Period(s) ==
    IF s.schedule_type = "daily" THEN Some(DaySeconds)
    ELSE IF s.schedule_type = "hourly" THEN Some(HourSeconds)
    ELSE IF s.schedule_type = "interval" /\ s.interval # Some(0) THEN s.interval
    ELSE Nil

\* the instant an iso string stands for
FromIso(iso) == iso[2]

\* the schedule s is due one period after the instant t
DueOnePeriodAfter(s, t) ==
    /\ s.next_run # Nil
    /\ Period(s) # Nil
    /\ s.next_run = Some(t + Seconds(Period(s)[1]))

\* d's schedule right after add_schedule is called with the k-th input
JustAdded(d, k) ==
    Get(AfterAdd(schedules,
                 NewSchedule(d, ScheduleInputs[k].schedule_type,
                             ScheduleInputs[k].interval), now), d)

\* d's schedule right after mark_run(d) is called
JustMarked(d) == Get(AfterMark(schedules, d, now), d)

ScheduleKinds == {"daily", "hourly", "interval", "custom"}

\* C12: add_schedule with a kind that is none of daily, hourly, interval and
\* custom changes neither the registry nor the snapshot; and the schedule
\* that add_schedule has put into the registry has next_run set.
C12_UnsupportedKindRejected ==
    [][\A d \in SchedIds, k \in 1..Len(ScheduleInputs) :
          add_schedule(d, ScheduleInputs[k].schedule_type, ScheduleInputs[k].interval)
              => /\ ScheduleInputs[k].schedule_type \notin ScheduleKinds
                        => UNCHANGED <<schedules, sched_file>>
                 /\ Has(schedules', d) => Get(schedules', d).next_run # Nil]_vars

\* ------------------------------------------------------------------ C13
\* the listeners of a trigger id, none when the id has no list
ListenersOf(refs, heap, tr) == IF tr \in DOMAIN refs THEN heap[refs[tr]] ELSE <<>>

\* the fan-out: the listeners of every trigger id
FanOut(refs, heap) == [tr \in TriggerIds |-> ListenersOf(refs, heap, tr)]

NoDuplicates(l) == \A a, b \in 1..Len(l) : a # b => l[a] # l[b]

\* C13: fire_trigger on an unregistered id returns None and changes neither
\* the triggers nor the fan-out; on a registered id it returns a result for
\* that id whose triggered_dags are exactly the trigger's current listeners,
\* each once (none if no listener was added), and sets the trigger's
\* last_triggered to the instant of the firing.
C13_FireReturnsListeners ==
    [][\A tr \in TriggerIds, payload \in Payloads :
          fire_trigger(tr, payload) =>
              IF tr \notin DOMAIN triggers
              THEN /\ fired' = Returned(Nil)
                   /\ triggers' = triggers
                   /\ FanOut(listeners', lists') = FanOut(listeners, lists)
              ELSE /\ fired'.kind = "returned"
                   /\ fired'.value # Nil
                   /\ LET r == fired'.value[1]
                      IN  /\ r.trigger_id = tr
                          /\ r.fired_at = IsoFormat(now)
                          /\ lists'[r.triggered_dags] = ListenersOf(listeners, lists, tr)
                          /\ NoDuplicates(lists'[r.triggered_dags])
                   /\ FanOut(listeners', lists') = FanOut(listeners, lists)
                   /\ triggers'[tr].last_triggered = IsoFormat(now)]_vars

\* a trigger whose listeners are dag_2 and dag_1, added in that order, has been
\* fired and has returned the two
C13_Witness ==
    /\ fired.kind = "returned"
    /\ fired.value # Nil
    /\ lists[fired.value[1].triggered_dags] = <<"dag_2", "dag_1">>
    /\ triggers[fired.value[1].trigger_id].last_triggered = fired.value[1].fired_at

\* ------------------------------------------------------------------ C14
\* C14: no listener list holds a dag id twice; add_listener leaves the dag id
\* in the trigger's list and changes nothing when it was there already;
\* remove_listener leaves the dag id out of the list and changes nothing when
\* it was not there; neither touches the list of another trigger id.
C14_ListenersAreASet ==
    [][/\ \A tr \in TriggerIds : NoDuplicates(ListenersOf(listeners', lists', tr))
       /\ \A tr \in TriggerIds, d \in ListenerIds :
             LET before == ListenersOf(listeners, lists, tr)
                 after == ListenersOf(listeners', lists', tr)
                 others(f) == [x \in TriggerIds \ {tr} |-> f[x]]
             IN  /\ add_listener(tr, d) =>
                        /\ d \in SeqRange(after)
                        /\ SeqRange(after) = SeqRange(before) \cup {d}
                        /\ d \in SeqRange(before) => after = before
                        /\ others(FanOut(listeners', lists'))
                               = others(FanOut(listeners, lists))
                 /\ remove_listener(tr, d) =>
                        /\ d \notin SeqRange(after)
                        /\ SeqRange(after) = SeqRange(before) \ {d}
                        /\ d \notin SeqRange(before) => after = before
                        /\ others(FanOut(listeners', lists'))
                               = others(FanOut(listeners, lists))]_vars

\* one trigger id has both listeners, the other has the empty list that
\* remove_listener left
C14_Witness ==
    \E tr, other \in DOMAIN listeners :
        /\ Len(lists[listeners[tr]]) = 2
        /\ lists[listeners[other]] = <<>>

\* ------------------------------------------------------------------ C18
\* C18: the triggered_dags of the result that fire_trigger returned stay what
\* they were when it returned, whatever add_listener and remove_listener do
\* afterwards.
C18_ResultIsASnapshot ==
    (fired.kind = "returned" /\ fired.value # Nil)
        => lists[fired.value[1].triggered_dags] = fired.value[1].at_return

\* ------------------------------------------------------------------ C15
\* C15: whatever the sequence of execute() calls on a task, also when an
\* attempt that failed is followed by one that succeeds, the task never has
\* status SUCCESS together with an error.
C15_SuccessHasNoError ==
    \A d \in DOMAIN dags :
        \A i \in 1..Len(dags[d].tasks) :
            ~(dags[d].tasks[i].status = "SUCCESS" /\ dags[d].tasks[i].error # None)

\* ------------------------------------------------------------------ C16
TerminalStatus == {"completed", "failed"}

\* the runs that were given the run id
RunsOf(run_id) == {k \in 1..Len(robj) : robj[k].run_id = run_id}

\* the run ids given so far, and those run_dag would give now
KnownOrNext == {robj[k].run_id : k \in 1..Len(robj)} \cup {Digest(d, now) : d \in DagIds}

\* get_run returns None for a run id that is unknown or still running, and
\* the terminal record of the run once it has ended
GetRunIsAbsentOrTerminal ==
    \A run_id \in KnownOrNext :
        IF \A k \in RunsOf(run_id) : robj[k].status = "running"
        THEN get_run(run_id) = Nil
        ELSE /\ get_run(run_id) # Nil
             /\ get_run(run_id)[1].status \in TerminalStatus
             /\ \E k \in RunsOf(run_id) : get_run(run_id)[1] = robj[k]

\* a run changes its status only from running to a terminal one and does not
\* change once terminal; a record is written when its run becomes terminal,
\* and a record that is written does not change
RunLifecycle ==
    /\ \A k \in 1..Len(robj) :
          /\ robj'[k].status # robj[k].status
                => robj[k].status = "running" /\ robj'[k].status \in TerminalStatus
          /\ robj[k].status \in TerminalStatus => robj'[k] = robj[k]
    /\ \A run_id \in DOMAIN files :
          run_id \in DOMAIN files' /\ files'[run_id] = files[run_id]
    /\ \A run_id \in DOMAIN files' \ DOMAIN files :
          \E k \in RunsOf(run_id) :
              /\ robj[k].status = "running"
              /\ robj'[k].status \in TerminalStatus
              /\ files'[run_id] = robj'[k]

\* C16: a run's status goes from running to completed or to failed and then
\* stays; its record is written once, when the run becomes terminal, and no
\* later step, a later run_dag included, changes it; get_run returns None for
\* a run id that is unknown or still running and the terminal record after.
C16_RunRecordLifecycle == []GetRunIsAbsentOrTerminal /\ [][RunLifecycle]_vars

\* a first run has ended and its record is read back while a second run,
\* started later on the same DAG, is under way
C16_Witness ==
    /\ Len(robj) = 2
    /\ robj[1].status = "failed"
    /\ robj[2].status = "running"
    /\ robj[1].run_id # robj[2].run_id
    /\ get_run(robj[1].run_id) = Some(robj[1])
    /\ get_run(robj[2].run_id) = Nil
    /\ th[MainThread].pc = "sleep"

\* ------------------------------------------------------------------ C17
\* the records a snapshot file holds, none when there is no file
FileHolds(file) == IF file = Nil THEN <<>> ELSE file[1]

\* the file holds exactly the schedules of the registry, each with its
\* current kind, interval, enabled flag, last_run and next_run
SnapshotIsRegistry(file, dict) ==
    /\ Len(FileHolds(file)) = Len(dict)
    /\ \A i \in 1..Len(dict) :
          LET rec == FileHolds(file)[i]
              s == dict[i]
          IN  /\ rec.dag_id = s.dag_id
              /\ rec.schedule_type = s.schedule_type
              /\ rec.interval = s.interval
              /\ rec.enabled = s.enabled
              /\ rec.last_run = s.last_run
              /\ rec.next_run = (IF s.next_run = Nil THEN Nil
                                 ELSE IsoFormat(s.next_run[1]))

\* C17: when add_schedule, remove_schedule, enable_schedule, disable_schedule
\* or mark_run returns, the snapshot file holds exactly the schedules of the
\* registry with their current fields.
C17_SnapshotIsRegistry ==
    [][\A d \in SchedIds :
          (\/ Replaces(d) \/ remove_schedule(d) \/ enable_schedule(d)
           \/ disable_schedule(d) \/ mark_run(d))
              => SnapshotIsRegistry(sched_file', schedules')]_vars

\* ------------------------------------------------------------------ C19
\* C19: once a task has failed in a run, every other task that lists it as a
\* dependency is PENDING, not SKIPPED, in every later state, and the run is
\* still under way: run_dag has not returned, the run's status is running
\* and get_run finds no record of it.
C19_FailedDependencyStalls ==
    \A t \in Threads :
        LET me == th[t] IN
        me.run > 0 =>
            \A i \in SeqRange(robj[me.run].tasks_failed) :
                \A j \in 1..Len(dags[me.dag_id].tasks) :
                    (j # i /\ i \in Deps(dags[me.dag_id].tasks, j)) =>
                        /\ dags[me.dag_id].tasks[j].status = "PENDING"
                        /\ me.pc # "idle"
                        /\ me.outcome = NoOutcome
                        /\ robj[me.run].status = "running"
                        /\ get_run(robj[me.run].run_id) = Nil

\* task_1 has failed, task_2 depends on it alone, and the loop has gone
\* round until the clock's last step without starting task_2
C19_Witness ==
    LET me == th[MainThread] IN
    /\ me.run > 0
    /\ me.pc = "while"
    /\ ticks = MaxTicks
    /\ robj[me.run].tasks_failed = <<1>>
    /\ Len(dags[me.dag_id].tasks) = 2
    /\ dags[me.dag_id].tasks[2].depends_on = <<1>>
    /\ dags[me.dag_id].tasks[2].status = "PENDING"
    /\ me.ready_tasks = <<>>

\* ------------------------------------------------------------------ C20
\* the task lies on a cycle, or depends on one that does
OnOrBehindCycle(tasks, i) ==
    \/ i \in TransDeps(tasks, i)
    \/ \E c \in TransDeps(tasks, i) \cap (1..Len(tasks)) : c \in TransDeps(tasks, c)

\* C20: on a graph with a cycle, a self-dependency included, topological_sort
\* returns an order shorter than the number of tasks that holds no task on a
\* cycle and no task that depends on one; and run_dag, which calls it, takes
\* that order as the execution order and raises nothing.
C20_CycleShortensOrder ==
    /\ \A d \in DOMAIN dags :
          LET tasks == dags[d].tasks
              order == topological_sort(tasks)
          IN  ~Acyclic(tasks) =>
                  /\ Len(order) < Len(tasks)
                  /\ \A i \in 1..Len(tasks) :
                        OnOrBehindCycle(tasks, i) => i \notin SeqRange(order)
    /\ \A t \in Threads :
          th[t].run > 0 =>
              /\ dags[th[t].dag_id].execution_order
                     = topological_sort(dags[th[t].dag_id].tasks)
              /\ th[t].outcome.kind # "raised"

\* a run has started on a DAG whose first task depends on itself and whose
\* second task depends on the first: the execution order is empty
C20_Witness ==
    LET me == th[MainThread] IN
    /\ me.run > 0
    /\ Len(dags[me.dag_id].tasks) = 2
    /\ dags[me.dag_id].tasks[1].depends_on = <<1>>
    /\ dags[me.dag_id].tasks[2].depends_on = <<1>>
    /\ dags[me.dag_id].execution_order = <<>>

\* ------------------------------------------------------------------ C21
\* run k has just started, on a DAG that is acyclic, without dangling
\* dependencies, whose callables all return, with max_parallel >= 1; the DAG
\* may have been run before
GoodRun(k) ==
    /\ th[MainThread].pc = "while"
    /\ th[MainThread].run = k
    /\ th[MainThread].trace = <<>>
    /\ th[MainThread].max_parallel >= 1
    /\ LET tasks == dags[th[MainThread].dag_id].tasks
       IN  /\ \A i \in 1..Len(tasks) : tasks[i].func = "ok"
           /\ Acyclic(tasks)
           /\ NoDangling(tasks)

\* C21: every run_dag invocation on an acyclic DAG whose tasks all succeed,
\* the second on the same DAG as well as the first, ends with status
\* "completed" after executing every task once.
C21_EveryRunCompletes == \A k \in 1..MaxRuns : GoodRun(k) ~> CompletedInOrder(k)

\* ------------------------------------------------------------------ C22
\* C22: whenever the snapshot file is the one the registry was written to, a
\* Scheduler constructed over it holds the same schedules with the same kind,
\* interval, enabled flag, last_run and next_run, and its get_pending_runs
\* returns at this instant what the writer's returns.
C22_ReloadIsRoundTrip ==
    (sched_file # Nil /\ SnapshotIsRegistry(sched_file, schedules)) =>
        /\ Loaded(sched_file) = schedules
        /\ PendingRuns(Loaded(sched_file), now) = PendingRuns(schedules, now)

\* ------------------------------------------------------------------ C23
\* run k has just started on a DAG that is fresh and acyclic, whose callables
\* all return, with max_parallel >= 1; its dependency lists may name ids
\* that are not in the DAG
FreshRunMaybeDangling(k) ==
    /\ th[MainThread].pc = "while"
    /\ th[MainThread].run = k
    /\ th[MainThread].trace = <<>>
    /\ th[MainThread].max_parallel >= 1
    /\ LET tasks == dags[th[MainThread].dag_id].tasks
       IN  /\ \A i \in 1..Len(tasks) :
                 tasks[i].status = "PENDING" /\ tasks[i].func = "ok"
           /\ Acyclic(tasks)

\* run k has ended, its record is saved, no task failed and every task of
\* the execution order was executed
EndedWithOrderExecuted(k) ==
    /\ k <= Len(robj)
    /\ robj[k].status = "completed"
    /\ robj[k].tasks_failed = <<>>
    /\ get_run(robj[k].run_id) = Some(robj[k])
    /\ SeqRange(dags[robj[k].dag_id].execution_order)
           \subseteq SeqRange(robj[k].tasks_completed)

\* C23: a run in which no task fails, on a fresh acyclic DAG whose dependency
\* lists may name ids absent from the DAG, terminates after executing every
\* task that topological_sort put into the execution order.
C23_DanglingIgnoredByDispatch ==
    \A k \in 1..MaxRuns : FreshRunMaybeDangling(k) ~> EndedWithOrderExecuted(k)

====
